---- MODULE Spec2Model ----
(***************************************************************************)
(* Borrow / return lifecycle of the library application:                   *)
(*   books/models.py  (Book, BorrowRecord, Fine, Reservation)               *)
(*   books/views.py   (borrow_book, return_book, reserve_book,              *)
(*                     cancel_reservation)                                  *)
(*   library_project/settings.py (Library Business Settings)                *)
(*                                                                         *)
(* Borrow / return:                                                        *)
(* Spec      : every view runs to completion before the next one starts.   *)
(* SpecClock : the same with the clock running.                            *)
(* SpecShelf : the same with some titles under maintenance.                *)
(* SpecConc  : the views of several requests interleave at their database  *)
(*             accesses (the views open no transaction and take no lock).  *)
(* Fines:                                                                  *)
(* SpecFine, SpecFineCreate, SpecFineClock : Fine rows, their payment and  *)
(*             waiver, and the fine computed on a loan over time.          *)
(* Reservations:                                                           *)
(* SpecRes, SpecQueue : the reservation operations one at a time.          *)
(* SpecResConc : reservation requests interleaved.                         *)
(* SpecScenario : the borrow-reserve-return-pickup walk-through.           *)
(* SpecHold  : reservations and their notification with the clock.         *)
(* Further:                                                                *)
(* SpecReturnRace : return requests interleaved after whole borrows.       *)
(* SpecOverdue : days_overdue and calculated_fine read as time passes.     *)
(* SpecOwner : the four views called by owners and by other users.         *)
(***************************************************************************)
EXTENDS Integers, Sequences, FiniteSets

\* ------------------------------------------------------------------ bounds
MaxCopies == 2
MaxLoans == 3
MaxTime == 4
MaxClockLoans == 2
TicksPerDay == 2
MaxLateDays == 3

Users == {"u1", "u2"}
Titles == {"t1", "t2"}
Requests == {"r1", "r2", "r3"}

\* ------------------------------------------------- settings.py:199-201
DefaultBorrowPeriodDays == 14
DefaultFinePerDayCents == 50
DefaultMaxBooksPerUser == 5

\* The three settings are read from the environment at start-up; the
\* defaults and two small deployments are explored.
Configs ==
    { [borrow_days |-> DefaultBorrowPeriodDays,
       fine_cents |-> DefaultFinePerDayCents,
       max_books |-> DefaultMaxBooksPerUser],
      [borrow_days |-> 1, fine_cents |-> DefaultFinePerDayCents, max_books |-> 1],
      [borrow_days |-> 1, fine_cents |-> DefaultFinePerDayCents, max_books |-> 2] }

NoTime == -1
\* after_return uses the same marker for an absent number
NoVal == NoTime
NoTitle == "none"
NoUser == "nobody"

VARIABLES
    books,      \* Book rows: title -> [total_copies, available_copies, status]
    loans,      \* BorrowRecord rows, pk = index
    fines,      \* Fine rows: set of rows, each with its id and its loan
    reservations, \* Reservation rows, pk = index
    now,        \* timezone.now(), in ticks
    settings,   \* the configuration in force
    last,       \* the last completed request and what it observed
    req,        \* SpecConc: the requests in flight
    bookver     \* SpecConc: number of saves of each Book row

vars == <<books, loans, fines, reservations, now, settings, last, req, bookver>>

\* ------------------------------------------------------------ Book (models.py)
\* Book.is_available
is_available(b) == b.available_copies > 0

\* Fault injection: borrow adds a copy instead of removing one
Book_borrow_Increments(b) ==
    IF b.available_copies > 0
    THEN [book |-> [b EXCEPT !.available_copies = @ + 1], ok |-> TRUE]
    ELSE [book |-> b, ok |-> FALSE]

\* Fault injection: borrow guards with available_copies > 1
Book_borrow_OffByOne(b) ==
    IF b.available_copies > 1
    THEN [book |-> [b EXCEPT !.available_copies = @ - 1,
                             !.status = IF b.available_copies - 1 = 0
                                        THEN "BORROWED" ELSE @],
          ok |-> TRUE]
    ELSE [book |-> b, ok |-> FALSE]

\* Fault injection: borrow leaves the status alone
Book_borrow_KeepsStatus(b) ==
    IF b.available_copies > 0
    THEN [book |-> [b EXCEPT !.available_copies = @ - 1], ok |-> TRUE]
    ELSE [book |-> b, ok |-> FALSE]

\* Book.borrow: the instance after the call and the value returned
Book_borrow(b) ==
    IF b.available_copies > 0
    THEN [book |-> [b EXCEPT !.available_copies = @ - 1,
                             !.status = IF b.available_copies - 1 = 0
                                        THEN "BORROWED" ELSE @],
          ok |-> TRUE]
    ELSE [book |-> b, ok |-> FALSE]

\* Fault injection: return_book guards with available_copies + 1 < total_copies
Book_return_book_OffByOne(b) ==
    IF b.available_copies + 1 < b.total_copies
    THEN [book |-> [b EXCEPT !.available_copies = @ + 1,
                             !.status = IF b.available_copies + 1 > 0
                                        THEN "AVAILABLE" ELSE @],
          ok |-> TRUE]
    ELSE [book |-> b, ok |-> FALSE]

\* Book.return_book: the instance after the call and the value returned
Book_return_book(b) ==
    IF b.available_copies < b.total_copies
    THEN [book |-> [b EXCEPT !.available_copies = @ + 1,
                             !.status = IF b.available_copies + 1 > 0
                                        THEN "AVAILABLE" ELSE @],
          ok |-> TRUE]
    ELSE [book |-> b, ok |-> FALSE]

\* ---------------------------------------------------- BorrowRecord (models.py)
\* BorrowRecord.objects.create(user, book) followed by BorrowRecord.save:
\* status ACTIVE, borrowed_date now, due_date now + BORROW_PERIOD_DAYS
NewBorrowRecord(u, t, at, cfg) ==
    [user |-> u, book |-> t, status |-> "ACTIVE",
     borrowed_date |-> at,
     due_date |-> at + cfg.borrow_days * TicksPerDay,
     returned_date |-> NoTime]

\* BorrowRecord.is_overdue evaluated at time `at`
is_overdue(r, at) == IF r.status = "RETURNED" THEN FALSE ELSE at > r.due_date

\* BorrowRecord.days_overdue evaluated at time `at`
days_overdue(r, at) ==
    IF ~is_overdue(r, at) THEN 0 ELSE (at - r.due_date) \div TicksPerDay

\* BorrowRecord.calculated_fine evaluated at time `at`, in cents
calculated_fine(r, at, cfg) ==
    IF ~is_overdue(r, at) THEN 0 ELSE days_overdue(r, at) * cfg.fine_cents

\* ------------------------------------------- FINE_PER_DAY as a Python float
\* settings.FINE_PER_DAY is float(os.environ.get('FINE_PER_DAY', 0.50)), an
\* IEEE 754 double: a significand of FloatBits bits, most significant first,
\* and the power of two of its last bit.  0.0 has the empty significand.
FloatBits == 53
FloatZero == [man |-> <<>>, exp |-> 0]

Zeros(k) == [i \in 1..k |-> 0]

RECURSIVE IntBits(_)
IntBits(n) == IF n = 0 THEN <<>> ELSE Append(IntBits(n \div 2), n % 2)

\* The number written by at most ChunkBits binary digits, and back
ChunkBits == 8

RECURSIVE BitsVal(_)
BitsVal(b) ==
    IF b = <<>> THEN 0
    ELSE 2 * BitsVal(SubSeq(b, 1, Len(b) - 1)) + b[Len(b)]

ValBits(v, n) == [j \in 1..n |-> (v \div 2^(n - j)) % 2]

StripZeros(s) ==
    LET ones == {i \in 1..Len(s) : s[i] = 1}
    IN  IF ones = {} THEN <<>>
        ELSE SubSeq(s, CHOOSE i \in ones : \A k \in ones : i <= k, Len(s))

\* s + 1: the last 0 becomes 1 and the 1s after it become 0
IncBits(s) ==
    LET zeros == {i \in 1..Len(s) : s[i] = 0}
    IN  IF zeros = {} THEN <<1>> \o Zeros(Len(s))
        ELSE LET p == CHOOSE i \in zeros : \A k \in zeros : k <= i
             IN  [i \in 1..Len(s) |->
                    IF i < p THEN s[i] ELSE IF i = p THEN 1 ELSE 0]

\* 2^h modulo m, by halving h
RECURSIVE Pow2Mod(_, _)
Pow2Mod(h, m) ==
    IF h <= 2 * ChunkBits THEN (2^h) % m
    ELSE (Pow2Mod(h \div 2, m) * Pow2Mod(h - h \div 2, m)) % m

\* The first k binary digits of r/m after the point (r < m), and what is
\* left over after them
FracBits(r, m, k) ==
    [i \in 1..k |-> (2 * ((r * Pow2Mod(i - 1, m)) % m)) \div m]

FracRem(r, m, k) == (r * Pow2Mod(k, m)) % m

\* Round bits * 2^e (plus a non-zero remainder below the last bit when
\* sticky) to the nearest double, ties to even
FloatRound(bits, e, sticky) ==
    LET b == StripZeros(bits)
        n == Len(b)
    IN  IF n = 0 THEN FloatZero
        ELSE IF n <= FloatBits
        THEN [man |-> b \o Zeros(FloatBits - n), exp |-> e - (FloatBits - n)]
        ELSE LET man == SubSeq(b, 1, FloatBits)
                 guard == b[FloatBits + 1]
                 st == sticky \/ \E i \in (FloatBits + 2)..n : b[i] = 1
                 ex == e + (n - FloatBits)
                 up == guard = 1 /\ (st \/ man[FloatBits] = 1)
                 inc == IncBits(man)
             IN  IF ~up THEN [man |-> man, exp |-> ex]
                 ELSE IF Len(inc) > FloatBits
                 THEN [man |-> SubSeq(inc, 1, FloatBits), exp |-> ex + 1]
                 ELSE [man |-> inc, exp |-> ex]

\* float("c/100" written in decimal): the double nearest to c hundredths
FloatOfCents(c) ==
    LET k == FloatBits + 11
    IN  FloatRound(IntBits(c \div 100) \o FracBits(c % 100, 100, k), -k,
                   FracRem(c % 100, 100, k) # 0)

\* bits[1..i] times the small integer d plus carry, worked from the last
\* digits up, ChunkBits digits at a time
RECURSIVE MulBits(_, _, _, _)
MulBits(bits, d, i, carry) ==
    IF i = 0 THEN IntBits(carry)
    ELSE LET w == IF i >= ChunkBits THEN ChunkBits ELSE i
             v == BitsVal(SubSeq(bits, i - w + 1, i)) * d + carry
         IN  MulBits(bits, d, i - w, v \div 2^w) \o ValBits(v % 2^w, w)

\* int * float: the exact product rounded once
FloatMulInt(d, f) == FloatRound(MulBits(f.man, d, Len(f.man), 0), f.exp, FALSE)

\* BorrowRecord.calculated_fine as the interpreter computes it: the int 0
\* when not overdue, else days_overdue * settings.FINE_PER_DAY in doubles
calculated_fine_float(r, at, cfg) ==
    IF ~is_overdue(r, at) THEN FloatZero
    ELSE FloatMulInt(days_overdue(r, at), cfg.fine_per_day)

\* Fault injection: mark_returned leaves the status ACTIVE
MarkReturnedFields_StaysActive(r, at) ==
    [r EXCEPT !.returned_date = at]

\* The field assignments of BorrowRecord.mark_returned
MarkReturnedFields(r, at) ==
    [r EXCEPT !.returned_date = at, !.status = "RETURNED"]

\* ------------------------------------------------------- queries (views.py)
LoanIds(ls) == 1..Len(ls)

\* BorrowRecord.objects.filter(user=u, status=ACTIVE).count()
ActiveBorrows(ls, u) ==
    Cardinality({i \in LoanIds(ls) : ls[i].user = u /\ ls[i].status = "ACTIVE"})

\* BorrowRecord.objects.filter(user=u, book=t, status=ACTIVE).exists()
AlreadyBorrowed(ls, u, t) ==
    \E i \in LoanIds(ls) :
        ls[i].user = u /\ ls[i].book = t /\ ls[i].status = "ACTIVE"

\* Fault injection: the lookup without the status filter
FindActiveRecord_AnyStatus(ls, u, pk) ==
    pk \in LoanIds(ls) /\ ls[pk].user = u

\* get_object_or_404(BorrowRecord, pk=pk, user=u, status=ACTIVE)
FindActiveRecord(ls, u, pk) ==
    pk \in LoanIds(ls) /\ ls[pk].user = u /\ ls[pk].status = "ACTIVE"

\* Fault injection: borrow_book without the availability guard
BorrowOutcome_NoAvailCheck(active, b, dup, cfg) ==
    IF active >= cfg.max_books THEN "LoanLimitExceeded"
    ELSE IF dup THEN "DuplicateLoan"
    ELSE "ok"

\* Fault injection: borrow_book without the loan-cap guard
BorrowOutcome_NoCap(active, b, dup, cfg) ==
    IF ~is_available(b) THEN "TitleUnavailable"
    ELSE IF dup THEN "DuplicateLoan"
    ELSE "ok"

\* Fault injection: borrow_book with the duplicate guard before availability
BorrowOutcome_DupFirst(active, b, dup, cfg) ==
    IF active >= cfg.max_books THEN "LoanLimitExceeded"
    ELSE IF dup THEN "DuplicateLoan"
    ELSE IF ~is_available(b) THEN "TitleUnavailable"
    ELSE "ok"

\* Fault injection: borrow_book without the duplicate guard
BorrowOutcome_NoDupCheck(active, b, dup, cfg) ==
    IF active >= cfg.max_books THEN "LoanLimitExceeded"
    ELSE IF ~is_available(b) THEN "TitleUnavailable"
    ELSE "ok"

\* The three guards of borrow_book, in the order of the code
BorrowOutcome(active, b, dup, cfg) ==
    IF active >= cfg.max_books THEN "LoanLimitExceeded"
    ELSE IF ~is_available(b) THEN "TitleUnavailable"
    ELSE IF dup THEN "DuplicateLoan"
    ELSE "ok"

\* --------------------------------------------------------------- initial state
NoBook == [total_copies |-> 0, available_copies |-> 0, status |-> "AVAILABLE"]
NoRecord ==
    [user |-> NoUser, book |-> NoTitle, status |-> "none",
     borrowed_date |-> NoTime, due_date |-> NoTime, returned_date |-> NoTime]

\* A request not yet received: its view's local variables are unset
IdleReq ==
    [pc |-> "idle", op |-> "none", user |-> NoUser, title |-> NoTitle,
     pk |-> 0, book |-> NoBook, rec |-> NoRecord, active |-> 0,
     ver |-> 0, stale |-> FALSE, outcome |-> "none", created |-> 0,
     qpos |-> 0]

NoRequest ==
    [op |-> "none", user |-> NoUser, title |-> NoTitle, pk |-> 0,
     outcome |-> "none", loans |-> <<>>, books |-> <<>>, fines |-> {},
     reservations |-> <<>>, after_return |-> NoVal]

Init ==
    /\ \E tot \in [Titles -> 1..MaxCopies] :
         books = [t \in Titles |->
                    [total_copies |-> tot[t], available_copies |-> tot[t],
                     status |-> "AVAILABLE"]]
    /\ loans = <<>>
    /\ fines = {}
    /\ reservations = <<>>
    /\ now = 0
    /\ settings \in Configs
    /\ last = NoRequest
    /\ req = [p \in Requests |-> IdleReq]
    /\ bookver = [t \in Titles |-> 0]

\* ------------------------------------------------- views.py, one view at a time
NoneInFlight == \A p \in Requests : req[p].pc = "idle"

\* What a completed request leaves in `last`: the request, its outcome and
\* the rows as they were when it arrived.
Seen(op, u, t, pk, outcome, after) ==
    [op |-> op, user |-> u, title |-> t, pk |-> pk, outcome |-> outcome,
     loans |-> loans, books |-> books, fines |-> fines,
     reservations |-> reservations, after_return |-> after]

\* borrow_book(request, pk): request.user = u, pk = t
Borrow(u, t) ==
    LET b == books[t]
        outcome == BorrowOutcome(ActiveBorrows(loans, u), b,
                                 AlreadyBorrowed(loans, u, t), settings)
        \* available_copies before the return this borrow directly follows,
        \* when that return was of the same title by another user
        after == IF /\ last.op = "return" /\ last.outcome = "ok"
                    /\ last.title = t /\ last.user # u
                 THEN last.books[t].available_copies ELSE NoVal
    IN  /\ NoneInFlight
        /\ outcome = "ok" => Len(loans) < MaxLoans
        /\ IF outcome = "ok"
           THEN /\ loans' = Append(loans, NewBorrowRecord(u, t, now, settings))
                /\ books' = [books EXCEPT ![t] = Book_borrow(b).book]
           ELSE UNCHANGED <<loans, books>>
        /\ last' = Seen("borrow", u, t,
                        IF outcome = "ok" THEN Len(loans) + 1 ELSE 0,
                        outcome, after)
        /\ UNCHANGED <<fines, reservations, now, settings, req, bookver>>

\* return_book(request, pk): request.user = u
Return(u, pk) ==
    LET found == FindActiveRecord(loans, u, pk)
        t == IF pk \in LoanIds(loans) THEN loans[pk].book ELSE NoTitle
    IN  /\ NoneInFlight
        /\ IF found
           THEN /\ loans' = [loans EXCEPT ![pk] = MarkReturnedFields(@, now)]
                /\ books' = [books EXCEPT ![t] = Book_return_book(@).book]
           ELSE UNCHANGED <<loans, books>>
        /\ last' = Seen("return", u, t, pk,
                        IF found THEN "ok" ELSE "Http404", NoVal)
        /\ UNCHANGED <<fines, reservations, now, settings, req, bookver>>

\* The clock read by timezone.now() advances
Tick ==
    /\ NoneInFlight
    /\ now < MaxTime
    /\ now' = now + 1
    /\ UNCHANGED <<books, loans, fines, reservations, settings, last, req, bookver>>

Next ==
    \/ \E u \in Users, t \in Titles : Borrow(u, t)
    \/ \E u \in Users, pk \in 1..MaxLoans : Return(u, pk)

Spec == Init /\ [][Next]_vars

\* The same views with the clock running; the table of BorrowRecord rows is
\* kept to MaxClockLoans rows.
NextClock ==
    \/ \E u \in Users, t \in Titles : Len(loans) < MaxClockLoans /\ Borrow(u, t)
    \/ \E u \in Users, pk \in 1..MaxLoans : Return(u, pk)
    \/ Tick

SpecClock == Init /\ [][NextClock]_vars

\* The same views on a shelf where staff have put some titles under
\* maintenance (BookAdmin edits status); MaxClockLoans rows of BorrowRecord.
InitShelf ==
    /\ \E tot \in [Titles -> 1..MaxCopies],
          st \in [Titles -> {"AVAILABLE", "MAINTENANCE"}] :
         books = [t \in Titles |->
                    [total_copies |-> tot[t], available_copies |-> tot[t],
                     status |-> st[t]]]
    /\ loans = <<>>
    /\ fines = {}
    /\ reservations = <<>>
    /\ now = 0
    /\ settings \in Configs
    /\ last = NoRequest
    /\ req = [p \in Requests |-> IdleReq]
    /\ bookver = [t \in Titles |-> 0]

NextShelf ==
    \/ \E u \in Users, t \in Titles : Len(loans) < MaxClockLoans /\ Borrow(u, t)
    \/ \E u \in Users, pk \in 1..MaxLoans : Return(u, pk)

SpecShelf == InitShelf /\ [][NextShelf]_vars

\* ------------------------------- views.py, requests interleaved (SpecConc)
\* Each request is served once by its own worker; a step is one database
\* access together with the local computation that follows it.  `book` and
\* `rec` are the model instances the view holds in memory; Model.save()
\* writes every field of the instance back.

\* borrow_book line 84: book = get_object_or_404(Book, pk=pk)
BorrowLoad(p, u, t) ==
    /\ req[p].pc = "idle"
    /\ req' = [req EXCEPT ![p] = [@ EXCEPT !.pc = "b_count", !.op = "borrow",
                                           !.user = u, !.title = t,
                                           !.book = books[t],
                                           !.ver = bookver[t]]]
    /\ UNCHANGED <<books, loans, fines, reservations, now, settings, last, bookver>>

\* borrow_book lines 87-100: the count query, then the cap and availability
\* guards, the latter on the instance loaded at line 84
BorrowCount(p) ==
    LET r == req[p]
        active == ActiveBorrows(loans, r.user)
        outcome == BorrowOutcome(active, r.book, FALSE, settings)
    IN  /\ r.pc = "b_count"
        /\ req' = [req EXCEPT ![p] =
                     IF outcome = "ok"
                     THEN [@ EXCEPT !.pc = "b_exists", !.active = active]
                     ELSE [@ EXCEPT !.pc = "done", !.active = active,
                                    !.outcome = outcome]]
        /\ UNCHANGED <<books, loans, fines, reservations, now, settings, last, bookver>>

\* borrow_book lines 103-109: the exists query and the duplicate guard
BorrowExists(p) ==
    LET r == req[p]
        outcome == BorrowOutcome(r.active, r.book,
                                 AlreadyBorrowed(loans, r.user, r.title), settings)
    IN  /\ r.pc = "b_exists"
        /\ req' = [req EXCEPT ![p] =
                     IF outcome = "ok"
                     THEN [@ EXCEPT !.pc = "b_create"]
                     ELSE [@ EXCEPT !.pc = "done", !.outcome = outcome]]
        /\ UNCHANGED <<books, loans, fines, reservations, now, settings, last, bookver>>

\* borrow_book lines 112-115: BorrowRecord.objects.create(...)
BorrowCreate(p) ==
    LET r == req[p]
    IN  /\ r.pc = "b_create"
        /\ Len(loans) < MaxLoans
        /\ loans' = Append(loans, NewBorrowRecord(r.user, r.title, now, settings))
        /\ req' = [req EXCEPT ![p] = [@ EXCEPT !.pc = "b_save",
                                               !.created = Len(loans) + 1]]
        /\ UNCHANGED <<books, fines, reservations, now, settings, last, bookver>>

\* borrow_book line 118: book.borrow() on the instance loaded at line 84
BorrowSave(p) ==
    LET r == req[p]
        res == Book_borrow(r.book)
    IN  /\ r.pc = "b_save"
        /\ IF res.ok
           THEN /\ books' = [books EXCEPT ![r.title] = res.book]
                /\ bookver' = [bookver EXCEPT ![r.title] = @ + 1]
           ELSE UNCHANGED <<books, bookver>>
        /\ req' = [req EXCEPT ![p] = [@ EXCEPT !.pc = "done", !.outcome = "ok",
                                               !.stale = (bookver[r.title] # r.ver)]]
        /\ UNCHANGED <<loans, fines, reservations, now, settings, last>>

\* return_book lines 139-144: get_object_or_404(BorrowRecord, pk, user, ACTIVE)
ReturnGet(p, u, pk) ==
    /\ req[p].pc = "idle"
    /\ req' = [req EXCEPT ![p] =
                 IF FindActiveRecord(loans, u, pk)
                 THEN [@ EXCEPT !.pc = "r_save", !.op = "return", !.user = u,
                                !.pk = pk, !.rec = loans[pk],
                                !.title = loans[pk].book]
                 ELSE [@ EXCEPT !.pc = "done", !.op = "return", !.user = u,
                                !.pk = pk, !.outcome = "Http404"]]
    /\ UNCHANGED <<books, loans, fines, reservations, now, settings, last, bookver>>

\* mark_returned lines 233-236: set the fields on the instance and save it
ReturnSaveRecord(p) ==
    LET r == req[p]
    IN  /\ r.pc = "r_save"
        /\ loans' = [loans EXCEPT ![r.pk] = MarkReturnedFields(r.rec, now)]
        /\ req' = [req EXCEPT ![p] = [@ EXCEPT !.pc = "r_load",
                                               !.rec = MarkReturnedFields(r.rec, now)]]
        /\ UNCHANGED <<books, fines, reservations, now, settings, last, bookver>>

\* mark_returned line 237, self.book: the related Book is fetched
ReturnLoadBook(p) ==
    LET r == req[p]
    IN  /\ r.pc = "r_load"
        /\ req' = [req EXCEPT ![p] = [@ EXCEPT !.pc = "r_book",
                                               !.book = books[r.title],
                                               !.ver = bookver[r.title]]]
        /\ UNCHANGED <<books, loans, fines, reservations, now, settings, last, bookver>>

\* mark_returned line 237, .return_book() on the fetched instance
ReturnSaveBook(p) ==
    LET r == req[p]
        res == Book_return_book(r.book)
    IN  /\ r.pc = "r_book"
        /\ IF res.ok
           THEN /\ books' = [books EXCEPT ![r.title] = res.book]
                /\ bookver' = [bookver EXCEPT ![r.title] = @ + 1]
           ELSE UNCHANGED <<books, bookver>>
        /\ req' = [req EXCEPT ![p] = [@ EXCEPT !.pc = "done", !.outcome = "ok",
                                               !.stale = (bookver[r.title] # r.ver)]]
        /\ UNCHANGED <<loans, fines, reservations, now, settings, last>>

NextConc ==
    \/ \E p \in Requests, u \in Users, t \in Titles : BorrowLoad(p, u, t)
    \/ \E p \in Requests : BorrowCount(p)
    \/ \E p \in Requests : BorrowExists(p)
    \/ \E p \in Requests : BorrowCreate(p)
    \/ \E p \in Requests : BorrowSave(p)
    \/ \E p \in Requests, u \in Users, pk \in 1..MaxLoans : ReturnGet(p, u, pk)
    \/ \E p \in Requests : ReturnSaveRecord(p)
    \/ \E p \in Requests : ReturnLoadBook(p)
    \/ \E p \in Requests : ReturnSaveBook(p)

SpecConc == Init /\ [][NextConc]_vars

\* Return requests interleaved, after some borrows served one at a time
\* (Borrow waits for no request to be in flight, so the borrows come first).
NextReturnRace ==
    \/ \E u \in Users, t \in Titles : Len(loans) < MaxClockLoans /\ Borrow(u, t)
    \/ \E p \in Requests, u \in Users, pk \in 1..MaxLoans : ReturnGet(p, u, pk)
    \/ \E p \in Requests : ReturnSaveRecord(p)
    \/ \E p \in Requests : ReturnLoadBook(p)
    \/ \E p \in Requests : ReturnSaveBook(p)

SpecReturnRace == Init /\ [][NextReturnRace]_vars

\* ------------------------------------------------------------ Fine (models.py)
MaxFineLoans == 1
MaxFines == 2
FineAmounts == {0, DefaultFinePerDayCents}
\* None, or the amount handed to mark_paid, in cents
PayAmounts == {NoVal, 0, 30}
Reasons == {"hardship"}
\* The staff account that waives
Staff == {"staff"}

\* A Fine row as the ORM inserts it: status PENDING, nothing paid or waived
NewFine(id, pk, u, amount) ==
    [id |-> id, loan |-> pk, user |-> u, amount |-> amount,
     status |-> "PENDING", paid_date |-> NoTime, paid_amount |-> NoVal,
     waived_by |-> NoUser, waiver_reason |-> ""]

\* Fault injection: borrow_record as a plain ForeignKey
FineLoanIsFree_NotUnique(fs, pk) == TRUE

\* Fine.borrow_record is a OneToOneField: the insert is refused when a Fine
\* row of that BorrowRecord exists
FineLoanIsFree(fs, pk) == ~\E f \in fs : f.loan = pk

\* Fine.mark_paid(amount): `amount or self.amount` takes self.amount for None
\* and for a zero amount
Fine_mark_paid(f, amount, at) ==
    [f EXCEPT !.paid_date = at,
              !.paid_amount = IF amount = NoVal \/ amount = 0
                              THEN f.amount ELSE amount,
              !.status = "PAID"]

\* Fine.waive(waived_by, reason)
Fine_waive(f, by, reason) ==
    [f EXCEPT !.waived_by = by, !.waiver_reason = reason, !.status = "WAIVED"]

FineIds(fs) == {f.id : f \in fs}
FineById(fs, id) == CHOOSE f \in fs : f.id = id

\* A Fine is added for BorrowRecord pk (the FineAdmin add form)
CreateFine(pk, amount) ==
    LET free == FineLoanIsFree(fines, pk)
    IN  /\ NoneInFlight
        /\ pk \in LoanIds(loans)
        /\ free => Cardinality(fines) < MaxFines
        /\ fines' = IF free
                    THEN fines \cup {NewFine(Cardinality(fines) + 1, pk,
                                             loans[pk].user, amount)}
                    ELSE fines
        /\ last' = Seen("create_fine", loans[pk].user, loans[pk].book, pk,
                        IF free THEN "ok" ELSE "IntegrityError", NoVal)
        /\ UNCHANGED <<books, loans, reservations, now, settings, req, bookver>>

\* fine.mark_paid(amount) on the Fine row id
MarkPaid(id, amount) ==
    /\ NoneInFlight
    /\ id \in FineIds(fines)
    /\ LET f == FineById(fines, id)
       IN  /\ fines' = (fines \ {f}) \cup {Fine_mark_paid(f, amount, now)}
           /\ last' = Seen("pay", f.user, NoTitle, id, "ok", amount)
    /\ UNCHANGED <<books, loans, reservations, now, settings, req, bookver>>

\* fine.waive(waived_by, reason) on the Fine row id
Waive(id, by, reason) ==
    /\ NoneInFlight
    /\ id \in FineIds(fines)
    /\ LET f == FineById(fines, id)
       IN  /\ fines' = (fines \ {f}) \cup {Fine_waive(f, by, reason)}
           /\ last' = Seen("waive", f.user, NoTitle, id, "ok", NoVal)
    /\ UNCHANGED <<books, loans, reservations, now, settings, req, bookver>>

\* Loans and the Fine rows, one request at a time; the table of BorrowRecord
\* rows is kept to MaxFineLoans rows.
NextFine ==
    \/ \E u \in Users, t \in Titles : Len(loans) < MaxFineLoans /\ Borrow(u, t)
    \/ \E u \in Users, pk \in 1..MaxLoans : Return(u, pk)
    \/ \E pk \in 1..MaxLoans, a \in FineAmounts : CreateFine(pk, a)
    \/ \E id \in 1..MaxFines, a \in PayAmounts : MarkPaid(id, a)
    \/ \E id \in 1..MaxFines, u \in Staff, r \in Reasons : Waive(id, u, r)

SpecFine == Init /\ [][NextFine]_vars

\* Loans, the creation of Fine rows and their payment
NextFineCreate ==
    \/ \E u \in Users, t \in Titles : Len(loans) < MaxFineLoans /\ Borrow(u, t)
    \/ \E pk \in 1..MaxLoans, a \in FineAmounts : CreateFine(pk, a)
    \/ \E id \in 1..MaxFines, a \in PayAmounts : MarkPaid(id, a)

SpecFineCreate == Init /\ [][NextFineCreate]_vars

\* Loans, the clock and the creation of Fine rows
NextFineClock ==
    \/ \E u \in Users, t \in Titles : Len(loans) < MaxFineLoans /\ Borrow(u, t)
    \/ \E u \in Users, pk \in 1..MaxLoans : Return(u, pk)
    \/ Tick
    \/ \E pk \in 1..MaxLoans, a \in FineAmounts : CreateFine(pk, a)

SpecFineClock == Init /\ [][NextFineClock]_vars

\* ----------------------------------------------------- Reservation (models.py)
MaxReservations == 2
MaxQueue == 3
\* notify_ready: timedelta(days=3)
ReservationHoldDays == 3
ResUsers == Users \cup {"u3"}
ActiveStatuses == {"PENDING", "READY"}

\* Reservation.objects.create(user, book, queue_position): status PENDING,
\* reserved_date now, nothing notified
NewReservation(u, t, at, qpos) ==
    [user |-> u, book |-> t, status |-> "PENDING", reserved_date |-> at,
     notified_date |-> NoTime, expiry_date |-> NoTime, queue_position |-> qpos]

\* Fault injection: notify_ready without the expiry date
Reservation_notify_ready_NoExpiry(r, at) ==
    [r EXCEPT !.status = "READY", !.notified_date = at]

\* The field assignments of Reservation.notify_ready
Reservation_notify_ready(r, at) ==
    [r EXCEPT !.status = "READY", !.notified_date = at,
              !.expiry_date = at + ReservationHoldDays * TicksPerDay]

\* The field assignment of Reservation.cancel
Reservation_cancel(r) == [r EXCEPT !.status = "CANCELLED"]

\* The field assignment of Reservation.fulfill
Reservation_fulfill(r) == [r EXCEPT !.status = "FULFILLED"]

ResIds(rs) == 1..Len(rs)

\* Reservation.objects.filter(user=u, book=t, status__in=[PENDING, READY]).exists()
HasActiveReservation(rs, u, t) ==
    \E i \in ResIds(rs) :
        rs[i].user = u /\ rs[i].book = t /\ rs[i].status \in ActiveStatuses

\* Reservation.objects.filter(book=t, status=PENDING).count()
PendingCount(rs, t) ==
    Cardinality({i \in ResIds(rs) : rs[i].book = t /\ rs[i].status = "PENDING"})

\* Fault injection: queue_position left at the field's default
QueuePosition_Default(rs, t) == 1

\* reserve_book: queue_position
QueuePosition(rs, t) == PendingCount(rs, t) + 1

\* Fault injection: the table without unique_active_reservation
UniqueActive_Dropped(rs) == TRUE

\* The constraint unique_active_reservation on a table: no two rows of one
\* (user, book) with status PENDING or READY.  The database refuses an
\* INSERT or UPDATE whose result does not satisfy it.
UniqueActive(rs) ==
    \A i, j \in ResIds(rs) :
        (/\ i # j
         /\ rs[i].user = rs[j].user /\ rs[i].book = rs[j].book
         /\ rs[i].status \in ActiveStatuses /\ rs[j].status \in ActiveStatuses)
        => FALSE

\* Fault injection: the lookup without the user filter
FindActiveReservation_AnyUser(rs, u, pk) ==
    pk \in ResIds(rs) /\ rs[pk].status \in ActiveStatuses

\* get_object_or_404(Reservation, pk=pk, user=u, status__in=[PENDING, READY])
FindActiveReservation(rs, u, pk) ==
    pk \in ResIds(rs) /\ rs[pk].user = u /\ rs[pk].status \in ActiveStatuses

\* reserve_book(request, pk): request.user = u, pk = t
Reserve(u, t) ==
    LET dup == HasActiveReservation(reservations, u, t)
        row == NewReservation(u, t, now, QueuePosition(reservations, t))
        ins == Append(reservations, row)
        outcome == IF dup THEN "DuplicateReservation"
                   ELSE IF ~UniqueActive(ins) THEN "IntegrityError"
                   ELSE "ok"
    IN  /\ NoneInFlight
        /\ reservations' = IF outcome = "ok" THEN ins ELSE reservations
        /\ last' = Seen("reserve", u, t,
                        IF outcome = "ok" THEN Len(reservations) + 1 ELSE 0,
                        outcome, NoVal)
        /\ UNCHANGED <<books, loans, fines, now, settings, req, bookver>>

\* cancel_reservation(request, pk): request.user = u
CancelReservation(u, pk) ==
    LET found == FindActiveReservation(reservations, u, pk)
        t == IF pk \in ResIds(reservations) THEN reservations[pk].book ELSE NoTitle
    IN  /\ NoneInFlight
        /\ reservations' = IF found
                           THEN [reservations EXCEPT ![pk] = Reservation_cancel(@)]
                           ELSE reservations
        /\ last' = Seen("cancel", u, t, pk,
                        IF found THEN "ok" ELSE "Http404", NoVal)
        /\ UNCHANGED <<books, loans, fines, now, settings, req, bookver>>

\* reservation.notify_ready() on the Reservation row pk; its save() is
\* refused when the row would become a second active one of its pair
NotifyReady(pk) ==
    /\ NoneInFlight
    /\ pk \in ResIds(reservations)
    /\ LET r == reservations[pk]
           upd == [reservations EXCEPT ![pk] = Reservation_notify_ready(r, now)]
           ok == UniqueActive(upd)
       IN  /\ reservations' = IF ok THEN upd ELSE reservations
           /\ last' = Seen("notify_ready", r.user, r.book, pk,
                           IF ok THEN "ok" ELSE "IntegrityError", NoVal)
    /\ UNCHANGED <<books, loans, fines, now, settings, req, bookver>>

\* reservation.fulfill() on the Reservation row pk
Fulfill(pk) ==
    /\ NoneInFlight
    /\ pk \in ResIds(reservations)
    /\ LET r == reservations[pk]
       IN  /\ reservations' = [reservations EXCEPT ![pk] = Reservation_fulfill(r)]
           /\ last' = Seen("fulfill", r.user, r.book, pk, "ok", NoVal)
    /\ UNCHANGED <<books, loans, fines, now, settings, req, bookver>>

\* The reservation operations, one at a time, on a table of at most
\* MaxReservations rows
NextRes ==
    \/ \E u \in Users, t \in Titles :
          Len(reservations) < MaxReservations /\ Reserve(u, t)
    \/ \E u \in Users, pk \in 1..MaxReservations : CancelReservation(u, pk)
    \/ \E pk \in 1..MaxReservations : NotifyReady(pk)
    \/ \E pk \in 1..MaxReservations : Fulfill(pk)

\* The two views of the queue, for three users and at most MaxQueue rows
NextQueue ==
    \/ \E u \in ResUsers, t \in Titles :
          Len(reservations) < MaxQueue /\ Reserve(u, t)
    \/ \E u \in ResUsers, pk \in 1..MaxQueue : CancelReservation(u, pk)

\* Reservations do not read the settings or the counters: one deployment
InitRes ==
    /\ Init
    /\ settings.max_books = DefaultMaxBooksPerUser
    /\ \A t \in Titles : books[t].total_copies = 1

SpecRes == InitRes /\ [][NextRes]_vars

SpecQueue == InitRes /\ [][NextQueue]_vars

\* Deployments that set the option reservation_hold_days in their
\* environment, to its default or to one day
HoldConfigs ==
    { [borrow_days |-> DefaultBorrowPeriodDays,
       fine_cents |-> DefaultFinePerDayCents,
       max_books |-> DefaultMaxBooksPerUser,
       hold_days |-> h] : h \in {ReservationHoldDays, 1} }

InitHold ==
    /\ books = [t \in Titles |->
                  [total_copies |-> 1, available_copies |-> 1,
                   status |-> "AVAILABLE"]]
    /\ loans = <<>>
    /\ fines = {}
    /\ reservations = <<>>
    /\ now = 0
    /\ settings \in HoldConfigs
    /\ last = NoRequest
    /\ req = [p \in Requests |-> IdleReq]
    /\ bookver = [t \in Titles |-> 0]

\* Reservations and their notification with the clock running
NextHold ==
    \/ \E u \in Users, t \in Titles :
          Len(reservations) < MaxReservations /\ Reserve(u, t)
    \/ \E pk \in 1..MaxReservations : NotifyReady(pk)
    \/ Tick

SpecHold == InitHold /\ [][NextHold]_vars

\* Deployments whose FINE_PER_DAY is 0.50 or 0.10, with one-day loans;
\* fine_per_day is the float settings.py makes of the text at start-up
FloatConfigs ==
    { [borrow_days |-> 1, fine_cents |-> c, max_books |-> 1,
       fine_per_day |-> FloatOfCents(c)] : c \in {DefaultFinePerDayCents, 10} }

InitOverdue ==
    /\ books = [t \in Titles |->
                  [total_copies |-> 1, available_copies |-> 1,
                   status |-> "AVAILABLE"]]
    /\ loans = <<>>
    /\ fines = {}
    /\ reservations = <<>>
    /\ now = 0
    /\ settings \in FloatConfigs
    /\ last = NoRequest
    /\ req = [p \in Requests |-> IdleReq]
    /\ bookver = [t \in Titles |-> 0]

\* The clock runs until a loan made at the start is MaxLateDays and a
\* part of a day past its due date
TickLate ==
    /\ now < (settings.borrow_days + MaxLateDays) * TicksPerDay + 1
    /\ now' = now + 1
    /\ UNCHANGED <<books, loans, fines, reservations, settings, last, req, bookver>>

\* A page reads record.days_overdue and record.calculated_fine of loan pk
ReadFine(pk) ==
    /\ pk \in LoanIds(loans)
    /\ last' = [op |-> "calculated_fine", user |-> loans[pk].user,
                title |-> loans[pk].book, pk |-> pk, outcome |-> "ok",
                loans |-> loans, books |-> books, fines |-> fines,
                reservations |-> reservations, after_return |-> NoVal,
                at |-> now,
                days |-> days_overdue(loans[pk], now),
                fine |-> calculated_fine_float(loans[pk], now, settings)]
    /\ UNCHANGED <<books, loans, fines, reservations, now, settings, req, bookver>>

NextOverdue ==
    \/ \E u \in Users, t \in Titles : Len(loans) < MaxFineLoans /\ Borrow(u, t)
    \/ \E u \in Users, pk \in 1..MaxFineLoans : Return(u, pk)
    \/ \E pk \in 1..MaxFineLoans : ReadFine(pk)
    \/ TickLate

SpecOverdue == InitOverdue /\ [][NextOverdue]_vars

\* The four views, one request at a time
NextOwner ==
    \/ \E u \in Users, t \in Titles : Len(loans) < MaxFineLoans /\ Borrow(u, t)
    \/ \E u \in Users, pk \in 1..MaxFineLoans : Return(u, pk)
    \/ \E u \in Users, t \in Titles :
          Len(reservations) < MaxReservations /\ Reserve(u, t)
    \/ \E u \in Users, pk \in 1..MaxReservations : CancelReservation(u, pk)

SpecOwner == InitRes /\ [][NextOwner]_vars

\* ------------------------- reservations, requests interleaved (SpecResConc)
\* Each request is served once; a step is one database access with the
\* local computation that follows it.  `rec` is the Reservation instance the
\* caller holds in memory; save() writes all its fields.  The step that ends
\* a request leaves it in `last`, with the rows as that step found them.

\* A request that has been answered
Served == [IdleReq EXCEPT !.pc = "done"]

\* reserve_book lines 191-200: the already-reserved query and its guard
ReserveExists(p, u, t) ==
    /\ req[p].pc = "idle"
    /\ IF HasActiveReservation(reservations, u, t)
       THEN /\ last' = Seen("reserve", u, t, 0, "DuplicateReservation", NoVal)
            /\ req' = [req EXCEPT ![p] = Served]
       ELSE /\ req' = [req EXCEPT ![p] = [@ EXCEPT !.pc = "s_count",
                                                   !.op = "reserve",
                                                   !.user = u, !.title = t]]
            /\ UNCHANGED last
    /\ UNCHANGED <<books, loans, fines, reservations, now, settings, bookver>>

\* reserve_book lines 203-206: the count query
ReserveCount(p) ==
    /\ req[p].pc = "s_count"
    /\ req' = [req EXCEPT ![p] =
                 [@ EXCEPT !.pc = "s_create",
                           !.qpos = QueuePosition(reservations, req[p].title)]]
    /\ UNCHANGED <<books, loans, fines, reservations, now, settings, last, bookver>>

\* reserve_book lines 209-213: the INSERT, which the database refuses when
\* the pair already has an active reservation
ReserveCreate(p) ==
    LET r == req[p]
        ins == Append(reservations, NewReservation(r.user, r.title, now, r.qpos))
        ok == UniqueActive(ins)
    IN  /\ r.pc = "s_create"
        /\ ok => Len(reservations) < MaxReservations
        /\ reservations' = IF ok THEN ins ELSE reservations
        /\ last' = Seen("reserve", r.user, r.title,
                        IF ok THEN Len(reservations) + 1 ELSE 0,
                        IF ok THEN "ok" ELSE "IntegrityError", NoVal)
        /\ req' = [req EXCEPT ![p] = Served]
        /\ UNCHANGED <<books, loans, fines, now, settings, bookver>>

\* cancel_reservation lines 222-227: get_object_or_404(Reservation, ...)
CancelGet(p, u, pk) ==
    /\ req[p].pc = "idle"
    /\ IF FindActiveReservation(reservations, u, pk)
       THEN /\ req' = [req EXCEPT ![p] =
                         [@ EXCEPT !.pc = "c_save", !.op = "cancel", !.user = u,
                                   !.pk = pk, !.rec = reservations[pk],
                                   !.title = reservations[pk].book]]
            /\ UNCHANGED last
       ELSE /\ last' = Seen("cancel", u, NoTitle, pk, "Http404", NoVal)
            /\ req' = [req EXCEPT ![p] = Served]
    /\ UNCHANGED <<books, loans, fines, reservations, now, settings, bookver>>

\* cancel_reservation line 229: reservation.cancel() saves the instance
CancelSave(p) ==
    LET r == req[p]
    IN  /\ r.pc = "c_save"
        /\ reservations' = [reservations EXCEPT ![r.pk] = Reservation_cancel(r.rec)]
        /\ last' = Seen("cancel", r.user, r.title, r.pk, "ok", NoVal)
        /\ req' = [req EXCEPT ![p] = Served]
        /\ UNCHANGED <<books, loans, fines, now, settings, bookver>>

\* A caller of notify_ready or fulfill fetches the Reservation row pk
MethodLoad(p, op, pk) ==
    /\ req[p].pc = "idle"
    /\ pk \in ResIds(reservations)
    /\ req' = [req EXCEPT ![p] =
                 [@ EXCEPT !.pc = "m_save", !.op = op, !.pk = pk,
                           !.user = reservations[pk].user,
                           !.title = reservations[pk].book,
                           !.rec = reservations[pk]]]
    /\ UNCHANGED <<books, loans, fines, reservations, now, settings, last, bookver>>

\* notify_ready / fulfill on the fetched instance: the field assignments and
\* save(), an UPDATE the database refuses when it breaks the constraint
MethodSave(p) ==
    LET r == req[p]
        row == IF r.op = "notify_ready"
               THEN Reservation_notify_ready(r.rec, now)
               ELSE Reservation_fulfill(r.rec)
        upd == [reservations EXCEPT ![r.pk] = row]
        ok == UniqueActive(upd)
    IN  /\ r.pc = "m_save"
        /\ reservations' = IF ok THEN upd ELSE reservations
        /\ last' = Seen(r.op, r.user, r.title, r.pk,
                        IF ok THEN "ok" ELSE "IntegrityError", NoVal)
        /\ req' = [req EXCEPT ![p] = Served]
        /\ UNCHANGED <<books, loans, fines, now, settings, bookver>>

NextResConc ==
    \/ \E p \in Requests, u \in Users, t \in Titles : ReserveExists(p, u, t)
    \/ \E p \in Requests : ReserveCount(p)
    \/ \E p \in Requests : ReserveCreate(p)
    \/ \E p \in Requests, u \in Users, pk \in 1..MaxReservations :
          CancelGet(p, u, pk)
    \/ \E p \in Requests : CancelSave(p)
    \/ \E p \in Requests, op \in {"notify_ready", "fulfill"},
          pk \in 1..MaxReservations : MethodLoad(p, op, pk)
    \/ \E p \in Requests : MethodSave(p)

\* The requests arrive at a table that is empty or holds one reservation
\* cancelled earlier
InitResConc ==
    /\ books = [t \in Titles |->
                  [total_copies |-> 1, available_copies |-> 1,
                   status |-> "AVAILABLE"]]
    /\ loans = <<>>
    /\ fines = {}
    /\ reservations \in
          {<<>>} \cup {<<Reservation_cancel(NewReservation(u, t, 0, 1))>> :
                          u \in Users, t \in Titles}
    /\ now = 0
    /\ settings \in {c \in Configs : c.max_books = DefaultMaxBooksPerUser}
    /\ last = NoRequest
    /\ req = [p \in Requests |-> IdleReq]
    /\ bookver = [t \in Titles |-> 0]

SpecResConc == InitResConc /\ [][NextResConc]_vars

\* -------------------------------- borrow, reserve, return, pickup (SpecScenario)
IsBorrowOk == last.op = "borrow" /\ last.outcome = "ok"

\* A borrows the only copy of a title, B is refused and reserves it, A
\* returns it, B's reservation is notified and fulfilled and B borrows; the
\* clock runs in between.  Each step follows the request left in `last`.
ScnBorrowA ==
    /\ last.op = "none"
    /\ \E a \in Users, t \in Titles :
          books[t].total_copies = 1 /\ Borrow(a, t)

ScnBorrowB ==
    /\ IsBorrowOk /\ Len(loans) = 1
    /\ \E b \in Users \ {loans[1].user} : Borrow(b, loans[1].book)

ScnReserveB ==
    /\ last.op = "borrow" /\ last.outcome = "TitleUnavailable"
    /\ Reserve(last.user, last.title)

ScnReturnA ==
    /\ last.op = "reserve"
    /\ Return(loans[1].user, 1)

ScnNotify ==
    /\ last.op = "return"
    /\ NotifyReady(1)

ScnFulfill ==
    /\ last.op = "notify_ready"
    /\ Fulfill(1)

ScnPickup ==
    /\ last.op = "fulfill"
    /\ Borrow(last.user, last.title)

NextScenario ==
    \/ ScnBorrowA
    \/ ScnBorrowB
    \/ ScnReserveB
    \/ ScnReturnA
    \/ ScnNotify
    \/ ScnFulfill
    \/ ScnPickup
    \/ Tick

SpecScenario == Init /\ [][NextScenario]_vars

\* ===================================================================== claims
\* What the last request saw when it arrived
PreAvail == last.books[last.title].available_copies
PreActive == ActiveBorrows(last.loans, last.user)
PreDup == AlreadyBorrowed(last.loans, last.user, last.title)
RowsUnchanged == loans = last.loans /\ books = last.books /\ fines = last.fines
IsBorrow == last.op = "borrow"
IsReturn == last.op = "return"

\* C1: after any sequence of borrows and returns every title has
\* 0 <= available_copies <= total_copies.
C1_CopiesInRange ==
    \A t \in Titles :
        /\ 0 <= books[t].available_copies
        /\ books[t].available_copies <= books[t].total_copies

\* A return has just brought a title back to all its copies while another
\* title is lent out completely.
C1_Witness ==
    /\ IsReturn /\ last.outcome = "ok"
    /\ books[last.title].available_copies = books[last.title].total_copies
    /\ \E t \in Titles : books[t].available_copies = 0

\* C2 as stated: a borrow of a title with available_copies = 0 fails with
\* TitleUnavailable for every user, whatever loans the user holds, creates no
\* loan and leaves the counters alone.
C2_AlwaysTitleUnavailable ==
    (IsBorrow /\ PreAvail = 0) =>
        (last.outcome = "TitleUnavailable" /\ RowsUnchanged)

\* C2 amended: a borrow of a title with available_copies = 0 always fails,
\* with LoanLimitExceeded when the user is at the loan cap and with
\* TitleUnavailable otherwise; it creates no loan and available_copies stays 0.
C2_UnavailableRejected ==
    (IsBorrow /\ PreAvail = 0) =>
        /\ last.outcome = IF PreActive >= settings.max_books
                          THEN "LoanLimitExceeded" ELSE "TitleUnavailable"
        /\ RowsUnchanged
        /\ books[last.title].available_copies = 0

\* A user below the cap was refused a title that has no copy left.
C2_Witness ==
    /\ IsBorrow /\ PreAvail = 0 /\ PreActive < settings.max_books
    /\ last.outcome = "TitleUnavailable"

\* C3: a borrow by a user holding max_books_per_user ACTIVE loans is rejected
\* with LoanLimitExceeded and creates no loan, and no user ever holds more
\* than max_books_per_user ACTIVE loans.
C3_LoanCap ==
    /\ \A u \in Users : ActiveBorrows(loans, u) <= settings.max_books
    /\ (IsBorrow /\ PreActive >= settings.max_books) =>
           (last.outcome = "LoanLimitExceeded" /\ RowsUnchanged)

\* A user holding two ACTIVE loans under a cap of two was refused a third.
C3_Witness ==
    /\ IsBorrow /\ last.outcome = "LoanLimitExceeded"
    /\ settings.max_books = 2 /\ PreActive = 2

\* C4: the check and the mutation of a borrow are not separated by another
\* request's write to the title, and of two borrows by distinct users that
\* both read the same state of a title with exactly one available copy at
\* most one creates a loan.
C4_BorrowCheckThenActIsolated ==
    /\ \A p \in Requests : req[p].op = "borrow" => ~req[p].stale
    /\ \A p, q \in Requests :
          (/\ p # q
           /\ req[p].op = "borrow" /\ req[q].op = "borrow"
           /\ req[p].title = req[q].title /\ req[p].user # req[q].user
           /\ req[p].ver = req[q].ver
           /\ req[p].book.available_copies = 1
           /\ req[q].book.available_copies = 1)
          => ~(req[p].created # 0 /\ req[q].created # 0)

\* Two requests of distinct users loaded the same row of a one-copy title
\* and both got past the availability guard.
C4_RaceReached ==
    \E p, q \in Requests :
        /\ p # q /\ req[p].op = "borrow" /\ req[q].op = "borrow"
        /\ req[p].title = req[q].title /\ req[p].user # req[q].user
        /\ req[p].ver = req[q].ver /\ req[p].book.available_copies = 1
        /\ req[p].pc = "b_exists" /\ req[q].pc = "b_exists"

\* C5: every borrow either appends exactly one ACTIVE loan of that user and
\* title and lowers the title's available_copies by exactly one, or appends
\* nothing and leaves the counters unchanged.
C5_BorrowAllOrNothing ==
    IsBorrow =>
        \/ /\ last.outcome = "ok"
           /\ Len(loans) = Len(last.loans) + 1
           /\ SubSeq(loans, 1, Len(last.loans)) = last.loans
           /\ loans[Len(loans)].user = last.user
           /\ loans[Len(loans)].book = last.title
           /\ loans[Len(loans)].status = "ACTIVE"
           /\ books[last.title].available_copies = PreAvail - 1
           /\ \A t \in Titles \ {last.title} : books[t] = last.books[t]
        \/ /\ last.outcome # "ok"
           /\ RowsUnchanged

\* A borrow went through and took the last copy.
C5_Witness ==
    /\ IsBorrow /\ last.outcome = "ok"
    /\ PreAvail = 1 /\ books[last.title].available_copies = 0

\* C6: borrow reports the first failing precondition in the order loan cap,
\* availability, duplicate loan, and a rejected borrow changes nothing.
C6_FirstFailureWins ==
    IsBorrow =>
        /\ last.outcome =
              IF PreActive >= settings.max_books THEN "LoanLimitExceeded"
              ELSE IF PreAvail = 0 THEN "TitleUnavailable"
              ELSE IF PreDup THEN "DuplicateLoan"
              ELSE "ok"
        /\ last.outcome # "ok" => RowsUnchanged

\* A user below the cap who holds the only copy of a title asked for it
\* again and was told TitleUnavailable.
C6_Witness ==
    /\ IsBorrow /\ PreDup /\ PreAvail = 0 /\ PreActive < settings.max_books
    /\ last.outcome = "TitleUnavailable"

\* At most one ACTIVE loan per (user, title)
OneActivePerPair ==
    \A u \in Users, t \in Titles :
        Cardinality({i \in LoanIds(loans) :
            loans[i].user = u /\ loans[i].book = t /\ loans[i].status = "ACTIVE"}) <= 1

\* C7 as stated: at most one ACTIVE loan per (user, title), and every borrow
\* by a user who holds an ACTIVE loan on the title is rejected with
\* DuplicateLoan and changes nothing.
C7_AlwaysDuplicateLoan ==
    /\ OneActivePerPair
    /\ (IsBorrow /\ PreDup) => (last.outcome = "DuplicateLoan" /\ RowsUnchanged)

\* C7 amended: at most one ACTIVE loan per (user, title); a borrow by a user
\* who holds an ACTIVE loan on the title is always rejected and changes
\* nothing, with DuplicateLoan when the user is below the cap and the title
\* has a copy left, and with the error of the earlier check otherwise.
C7_DuplicateRejected ==
    /\ OneActivePerPair
    /\ (IsBorrow /\ PreDup) =>
           /\ last.outcome # "ok"
           /\ RowsUnchanged
           /\ (PreActive < settings.max_books /\ PreAvail > 0)
                  => last.outcome = "DuplicateLoan"

\* A user holding one of two copies asked for the title again.
C7_Witness ==
    IsBorrow /\ PreDup /\ last.outcome = "DuplicateLoan"

\* C8: return of a loan whose status is not ACTIVE is rejected (the view
\* answers 404 for it) and leaves the loan, the counters and the fines
\* unchanged.
C8_ReturnNeedsActive ==
    (IsReturn /\ last.pk \in LoanIds(last.loans)
        /\ last.loans[last.pk].status # "ACTIVE") =>
        (last.outcome = "Http404" /\ RowsUnchanged)

\* The borrower asked to return a loan that is already RETURNED.
C8_Witness ==
    /\ IsReturn /\ last.pk \in LoanIds(last.loans)
    /\ last.loans[last.pk].status = "RETURNED"
    /\ last.loans[last.pk].user = last.user
    /\ last.outcome = "Http404"

\* C9: when A's return of a title is directly followed by a borrow of that
\* title by another user B who is below the cap and holds no ACTIVE loan on
\* it, the borrow succeeds and available_copies is back at its value before
\* the return.
C9_ReturnThenBorrow ==
    (IsBorrow /\ last.after_return # NoVal
        /\ PreActive < settings.max_books /\ ~PreDup) =>
        /\ last.outcome = "ok"
        /\ books[last.title].available_copies = last.after_return

\* B took the copy A had just brought back, the only one of the title.
C9_Witness ==
    /\ IsBorrow /\ last.after_return = 0 /\ last.outcome = "ok"
    /\ books[last.title].available_copies = 0

\* C10: a successful return of a loan that is overdue at that moment leaves
\* a PENDING Fine of days_overdue * fine_per_day for the loan, exactly one;
\* a return on time leaves none.
C10_FineOnLateReturn ==
    (IsReturn /\ last.outcome = "ok") =>
        LET r == last.loans[last.pk]
            mine == {f \in fines : f.loan = last.pk}
        IN  IF is_overdue(r, loans[last.pk].returned_date)
            THEN /\ Cardinality(mine) = 1
                 /\ \A f \in mine :
                       /\ f.status = "PENDING"
                       /\ f.amount = calculated_fine(r, loans[last.pk].returned_date,
                                                     settings)
            ELSE mine = {}

\* What calculated_fine gave at the moment of the return, when the loan was
\* still ACTIVE
OwedAtReturn(r, cfg) ==
    calculated_fine([r EXCEPT !.status = "ACTIVE"], r.returned_date, cfg)

\* C11: for a loan returned after its due date whose Fine stores the amount
\* owed at the return, calculated_fine evaluated on the RETURNED loan at any
\* later time gives the stored amount.
C11_FineReproducible ==
    \A f \in fines :
        LET r == loans[f.loan]
        IN  (/\ r.status = "RETURNED" /\ r.returned_date > r.due_date
             /\ f.amount = OwedAtReturn(r, settings))
            => calculated_fine(r, now, settings) = f.amount

IsCreateFine == last.op = "create_fine"
HadFine == \E f \in last.fines : f.loan = last.pk

\* C12: every loan has at most one Fine, and adding a Fine for a loan that
\* has one is refused (IntegrityError of the one-to-one column) and leaves
\* the Fine rows as they were.
C12_OneFinePerLoan ==
    /\ \A pk \in LoanIds(loans) : Cardinality({f \in fines : f.loan = pk}) <= 1
    /\ (IsCreateFine /\ HadFine) =>
           (last.outcome = "IntegrityError" /\ fines = last.fines)

\* A second Fine was asked for a loan whose Fine is already PAID.
C12_Witness ==
    /\ IsCreateFine /\ HadFine /\ last.outcome = "IntegrityError"
    /\ \E f \in fines : f.loan = last.pk /\ f.status = "PAID"

\* C13: pay and waive on a Fine that is not PENDING are rejected with
\* InvalidFineState and leave the Fine as it was, so PAID and WAIVED are
\* never left.
C13_TerminalFineStates ==
    (last.op \in {"pay", "waive"}
        /\ FineById(last.fines, last.pk).status # "PENDING") =>
        (last.outcome = "InvalidFineState" /\ fines = last.fines)

\* C19: after any borrows and returns every title that is not under
\* maintenance has status AVAILABLE exactly when available_copies > 0.
C19_StatusFollowsCopies ==
    \A t \in Titles :
        books[t].status # "MAINTENANCE" =>
            (books[t].status = "AVAILABLE" <=> books[t].available_copies > 0)

\* The last copy of a title was just lent (status BORROWED) after an earlier
\* return had brought a title back to AVAILABLE.
C19_Witness ==
    /\ IsBorrow /\ last.outcome = "ok"
    /\ books[last.title].available_copies = 0
    /\ books[last.title].status = "BORROWED"
    /\ \E i \in LoanIds(loans) :
          /\ loans[i].status = "RETURNED"
          /\ books[loans[i].book].status = "AVAILABLE"

IsReserve == last.op = "reserve"
\* The rows of a title, and those of them that are PENDING
RowsOf(rs, t) == {i \in ResIds(rs) : rs[i].book = t}
PendingOf(rs, t) == {i \in RowsOf(rs, t) : rs[i].status = "PENDING"}
\* Rows are inserted in the order of their reservation: the rank of row i
\* among the rows of its title
RankOf(rs, i) == Cardinality({j \in RowsOf(rs, rs[i].book) : j <= i})

\* C15: a reservation is created with queue_position = number of PENDING
\* reservations of the title at that moment + 1, so while no reservation of a
\* title has left PENDING the k-th reservation of the title has position k.
C15_QueuePositions ==
    /\ (IsReserve /\ last.outcome = "ok") =>
           reservations[last.pk].queue_position =
               Cardinality(PendingOf(last.reservations, last.title)) + 1
    /\ \A t \in Titles :
           (PendingOf(reservations, t) = RowsOf(reservations, t)) =>
               \A i \in RowsOf(reservations, t) :
                   reservations[i].queue_position = RankOf(reservations, i)

\* Three distinct users reserved one title in a row and hold positions 1, 2, 3.
C15_Witness ==
    /\ IsReserve /\ last.outcome = "ok"
    /\ reservations[last.pk].queue_position = 3
    /\ Cardinality(PendingOf(reservations, last.title)) = 3
    /\ Cardinality({reservations[i].user :
                       i \in PendingOf(reservations, last.title)}) = 3
    /\ {reservations[i].queue_position :
           i \in PendingOf(reservations, last.title)} = 1..3

\* C16: right after a successful reserve the new reservation's
\* queue_position is greater than that of every other PENDING reservation of
\* the title.
C16_AppendsToTail ==
    (IsReserve /\ last.outcome = "ok") =>
        \A i \in PendingOf(reservations, last.title) \ {last.pk} :
            reservations[last.pk].queue_position > reservations[i].queue_position

\* C17: for every title the queue_positions of its PENDING reservations are
\* exactly 1..k and increase in the order the reservations were made.
C17_DenseOrdered ==
    \A t \in Titles :
        LET P == PendingOf(reservations, t)
        IN  /\ {reservations[i].queue_position : i \in P} = 1..Cardinality(P)
            /\ \A i, j \in P :
                  i < j => reservations[i].queue_position
                               < reservations[j].queue_position

AllowedMoves ==
    { <<"PENDING", "READY">>, <<"PENDING", "CANCELLED">>,
      <<"READY", "FULFILLED">>, <<"READY", "CANCELLED">>, <<"READY", "EXPIRED">> }

\* C18: an operation changes a reservation only along PENDING -> READY,
\* PENDING -> CANCELLED, READY -> FULFILLED, READY -> CANCELLED or
\* READY -> EXPIRED.
C18_StatusMoves ==
    \A i \in ResIds(last.reservations) :
        reservations[i] # last.reservations[i] =>
            <<last.reservations[i].status, reservations[i].status>> \in AllowedMoves

C20_Walkthrough ==
    LET t == loans[1].book
        a == loans[1].user
        res == reservations[1]
    IN  /\ (IsBorrowOk /\ Len(loans) = 1) =>
              /\ books[t].available_copies = 0
              /\ loans[1].status = "ACTIVE"
              /\ loans[1].due_date = loans[1].borrowed_date
                                       + settings.borrow_days * TicksPerDay
              /\ settings.borrow_days = DefaultBorrowPeriodDays =>
                     loans[1].due_date - loans[1].borrowed_date = 14 * TicksPerDay
        /\ (IsBorrow /\ Len(last.loans) = 1 /\ reservations = <<>>) =>
              /\ last.user # a
              /\ last.outcome = "TitleUnavailable"
              /\ RowsUnchanged
        /\ IsReserve =>
              /\ last.outcome = "ok" /\ Len(reservations) = 1
              /\ res.user # a /\ res.book = t
              /\ res.status = "PENDING" /\ res.queue_position = 1
        /\ IsReturn =>
              /\ last.outcome = "ok"
              /\ books[t].available_copies = 1
              /\ loans[1].status = "RETURNED"
              /\ res.status = "PENDING"
        /\ last.op = "notify_ready" =>
              /\ last.outcome = "ok"
              /\ res.status = "READY"
              /\ res.notified_date >= loans[1].returned_date
              /\ res.expiry_date = res.notified_date + 3 * TicksPerDay
        /\ last.op = "fulfill" =>
              /\ res.status = "FULFILLED"
              /\ books[t].available_copies = 1
        /\ (IsBorrow /\ Len(last.loans) = 1 /\ reservations # <<>>) =>
              /\ last.outcome = "ok"
              /\ res.status = "FULFILLED"
              /\ Len(loans) = 2
              /\ loans[2].status = "ACTIVE"
              /\ loans[2].user = res.user /\ loans[2].book = t
              /\ loans[1].status = "RETURNED"
              /\ books[t].available_copies = 0

\* The walk-through has reached its end under the default 14-day period, the
\* return and the notification one tick apart.
C20_Witness ==
    /\ IsBorrowOk /\ Len(loans) = 2
    /\ Len(reservations) = 1 /\ reservations[1].status = "FULFILLED"
    /\ settings.borrow_days = DefaultBorrowPeriodDays
    /\ reservations[1].notified_date = loans[1].returned_date + 1
    /\ reservations[1].expiry_date = reservations[1].notified_date + 3 * TicksPerDay

\* The ACTIVE loans of a title
ActiveLoansOf(ls, t) ==
    {i \in LoanIds(ls) : ls[i].book = t /\ ls[i].status = "ACTIVE"}

\* C26: starting with every copy on the shelf and no loans, after any
\* borrows and returns run one at a time every title has
\* available_copies = total_copies - number of its ACTIVE loans.
C26_CopyConservation ==
    \A t \in Titles :
        books[t].available_copies =
            books[t].total_copies - Cardinality(ActiveLoansOf(loans, t))

\* A copy of a two-copy title came back while its other copy is still lent.
C26_Witness ==
    /\ IsReturn /\ last.outcome = "ok"
    /\ books[last.title].total_copies = 2
    /\ books[last.title].available_copies = 1
    /\ Cardinality(ActiveLoansOf(loans, last.title)) = 1

\* C21: reserve creates a reservation only for a title with
\* available_copies = 0.
C21_ReserveOnlyUnavailable ==
    (IsReserve /\ last.outcome = "ok") =>
        last.books[last.title].available_copies = 0

\* C23: after pay, paid_amount is the amount supplied (0 included) and is
\* fine.amount only when no amount is supplied; amount is unchanged and the
\* status is PAID.
C23_PaidAmountAsGiven ==
    last.op = "pay" =>
        LET before == FineById(last.fines, last.pk)
            after == FineById(fines, last.pk)
        IN  /\ after.paid_amount = IF last.after_return = NoVal
                                   THEN before.amount ELSE last.after_return
            /\ after.amount = before.amount
            /\ after.status = "PAID"

\* The requests that returned loan pk and reported success
ReturnsOf(pk) ==
    {p \in Requests : /\ req[p].op = "return" /\ req[p].pc = "done"
                      /\ req[p].outcome = "ok" /\ req[p].pk = pk}

\* C22: a return whose increment of the title fails (available_copies
\* already equals total_copies) is rejected: no return request reports
\* success with its increment refused.
C22_ReturnAllOrNothing ==
    \A p \in Requests :
        (req[p].op = "return" /\ req[p].pc = "done" /\ req[p].outcome = "ok") =>
            req[p].book.available_copies < req[p].book.total_copies

\* C27: when the only requests served after the borrows are returns of one
\* loan, and they are all answered, the title's available_copies has grown
\* by exactly one.
C27_ReturnedOnce ==
    \A pk \in LoanIds(loans) :
        LET t == loans[pk].book
            lent == Cardinality({i \in LoanIds(loans) : loans[i].book = t})
        IN  (/\ ReturnsOf(pk) # {}
             /\ \A p \in Requests : req[p].pc = "idle" \/ p \in ReturnsOf(pk))
            => books[t].available_copies = books[t].total_copies - lent + 1

\* C24: notify_ready on a PENDING reservation gives status READY,
\* notified_date = now and expiry_date = now + reservation_hold_days, the
\* configured value of the deployment (3 days by default).
C24_HoldDaysConfigured ==
    (/\ last.op = "notify_ready" /\ last.outcome = "ok"
     /\ last.reservations[last.pk].status = "PENDING") =>
        LET res == reservations[last.pk]
        IN  /\ res.status = "READY"
            /\ res.notified_date <= now
            /\ res.expiry_date =
                   res.notified_date + settings.hold_days * TicksPerDay

IsCancel == last.op = "cancel"
NothingChanged ==
    loans = last.loans /\ books = last.books /\ reservations = last.reservations

\* C28: a return changes something only when the requesting user is the
\* loan's borrower and a cancel only when the requesting user holds the
\* reservation; a request naming another user's loan or reservation is
\* rejected (404) and changes no loan, reservation or counter.
C28_OwnerOnly ==
    /\ (IsReturn /\ ~NothingChanged) =>
          /\ last.pk \in LoanIds(last.loans)
          /\ last.loans[last.pk].user = last.user
    /\ (IsReturn /\ last.pk \in LoanIds(last.loans)
           /\ last.loans[last.pk].user # last.user) =>
          (last.outcome = "Http404" /\ NothingChanged)
    /\ (IsCancel /\ ~NothingChanged) =>
          /\ last.pk \in ResIds(last.reservations)
          /\ last.reservations[last.pk].user = last.user
    /\ (IsCancel /\ last.pk \in ResIds(last.reservations)
           /\ last.reservations[last.pk].user # last.user) =>
          (last.outcome = "Http404" /\ NothingChanged)

\* A user asked to cancel another user's PENDING reservation while that
\* user also has an ACTIVE loan, and got 404.
C28_Witness ==
    /\ IsCancel /\ last.outcome = "Http404"
    /\ last.pk \in ResIds(reservations)
    /\ reservations[last.pk].user # last.user
    /\ reservations[last.pk].status = "PENDING"
    /\ ActiveBorrows(loans, reservations[last.pk].user) > 0

\* C25: for a loan that is not RETURNED, days_overdue is the number of
\* complete days since due_date (0 up to the due date and during the first
\* day after it) and calculated_fine is days_overdue * fine_per_day as an
\* amount in hundredths: the value read is the double that the decimal
\* amount days * fine_per_day converts to (1.50 for 3 days at 0.50).
C25_DaysAndFine ==
    (last.op = "calculated_fine" /\ last.loans[last.pk].status # "RETURNED") =>
        LET late == last.at - last.loans[last.pk].due_date
            days == IF late <= 0 THEN 0 ELSE late \div TicksPerDay
        IN  /\ last.days = days
            /\ last.fine = FloatOfCents(days * settings.fine_cents)

====
